---- MODULE Spec2Model ----
(***************************************************************************)
(* Model of the KPI backend: the seed script (src/database.py), the chat   *)
(* service (src/main.py) and the start-up of the SQL agent                 *)
(* (src/db-agent.py).                                                      *)
(*                                                                         *)
(* SeedSpec is the seed script: main() run up to MaxRuns times, one action *)
(* per block of generate_sample_data up to and including its commit.       *)
(*                                                                         *)
(* Spec is a service process: the module's start-up, then (main.py) the    *)
(* three endpoints.  FastAPI runs the def endpoints on a thread pool, so   *)
(* a chat request is a sequence of steps that interleave with the steps of *)
(* other requests: the lookup in store, the load of the history, the LLM   *)
(* call, the appends to the history, the return.  SeqSpec is the same      *)
(* process when its clients send one request at a time, PostSpec when they *)
(* only post chat messages, any number at once.  AgentSpec is the process  *)
(* of db-agent.py: its start-up and the agent's loop of model and tools.   *)
(*                                                                         *)
(* A definition named in a comment as "faulty" is a variant of the code    *)
(* used to show that a property depends on the definition it replaces.     *)
(***************************************************************************)
EXTENDS Integers, Sequences, FiniteSets, TLC

\* The seed script.
VARIABLES args, seed, spc, db, lists, exc, runs

\* The chat service and the start-up of either service.
VARIABLES env, module, boot, api_key, created, store, heap, req,
          cleared, response

seedVars == <<args, seed, spc, db, lists, exc, runs>>

chatVars == <<env, module, boot, api_key, created, store, heap, req,
              cleared, response>>

\* The run of the SQL agent and the database it is connected to.
VARIABLES agent, remote

agentVars == <<agent, remote>>

vars == <<args, seed, spc, db, lists, exc, runs, env, module, boot, api_key,
          created, store, heap, req, cleared, response, agent, remote>>

\* ------------------------------------------------------------------ bounds
\* Largest value of each target row count of generate_sample_data.
MaxCompanies == 2
MaxClientsPerCompany == 1
MaxProjects == 2
MaxEmployees == 2
MaxRevenueMonths == 1
MaxTimeEntries == 2
\* Outcomes of the random source that are explored: seeds 0..MaxSeed.
MaxSeed == 1
\* Number of times main() is run in sequence.
MaxRuns == 2
\* Number of POST /chat requests a process receives.
MaxRequests == 2
\* Number of tool calls the model asks for before it answers.
MaxToolCalls == 2

\* ------------------------------------------------------- program constants
\* len(category_list)
NumCategories == 4
\* for m_idx in range(2)
MilestonesPerProject == 2
\* for _ in range(12)
NumHiringRows == 12
\* len(kpis)
NumKpis == 7
\* min(5, len(employees))
TeamSize == 5
\* PRJ{i+1000}
CodeBase == 1000
\* idx % 3 == 0
TrainingEvery == 3

\* A primary key that has not been assigned yet (Python None, SQL NULL).
NULL == 0 - 1

\* date.today() as a day number; a date is a day number, a timedelta a number
\* of days.
Today == 1000

Min(a, b) == IF a < b THEN a ELSE b
Max(a, b) == IF a > b THEN a ELSE b

\* ------------------------------------------------------------ random source
\* One outcome of the random module is a function from the place of a draw to
\* the number drawn; the model explores the outcomes Mix(seed, _), one per seed.
Mix(s, p) == (s + 5) * (p \div 100 + 1) + (s + 4) * (p % 100) + (p \div 10000) * (s + 2)

\* The place of a draw: block, outer loop index, draw within the iteration.
Pos(block, i, k) == block * 10000 + i * 100 + k

\* random.randint(lo, hi) at place p
randint(p, lo, hi) == lo + (Mix(seed, p) % (hi - lo + 1))

\* Faulty: the index drawn, not the element at it.
ChoiceRaw(p, xs) == Mix(seed, p) % Len(xs)
\* random.choice(xs) at place p, xs non-empty
choice(p, xs) == xs[(Mix(seed, p) % Len(xs)) + 1]

\* random.random() at place p, in tenths
random_tenths(p) == Mix(seed, p) % 10

\* random.sample(xs, k) at place p, k <= len(xs): k distinct elements
sample(p, xs, k) == [j \in 1..k |-> xs[((Mix(seed, p) + j - 1) % Len(xs)) + 1]]

\* ------------------------------------------------------------------ strings
Digit(d) == CASE d = 0 -> "0" [] d = 1 -> "1" [] d = 2 -> "2" [] d = 3 -> "3"
              [] d = 4 -> "4" [] d = 5 -> "5" [] d = 6 -> "6" [] d = 7 -> "7"
              [] d = 8 -> "8" [] d = 9 -> "9"

RECURSIVE Str(_)
\* str(n) for n >= 0: the decimal digits, most significant first
Str(n) == IF n < 10 THEN <<Digit(n)>> ELSE Str(n \div 10) \o <<Digit(n % 10)>>

\* Faulty: the loop bound in place of the loop index.
ProjectCodeOfCount(i) == <<"P", "R", "J">> \o Str(args.num_projects + CodeBase)
\* f"PRJ{i+1000}"
ProjectCode(i) == <<"P", "R", "J">> \o Str(i + CodeBase)

\* ------------------------------------------------------------------- schema
Tables == {"companies", "company_revenue", "clients", "project_categories",
           "projects", "project_details", "employees", "team_members",
           "project_goals", "kpi_catalog", "milestones", "defects", "issues",
           "time_entry", "project_cost", "employee_exit", "hiring_pipeline",
           "training_attendance"}

\* The primary key column of each table.
PrimaryKey == [companies |-> "company_id", company_revenue |-> "revenue_id",
               clients |-> "client_id", project_categories |-> "category_id",
               projects |-> "project_id", project_details |-> "detail_id",
               employees |-> "employee_id", team_members |-> "id",
               project_goals |-> "goal_id", kpi_catalog |-> "kpi_id",
               milestones |-> "milestone_id", defects |-> "defect_id",
               issues |-> "issue_id", time_entry |-> "time_entry_id",
               project_cost |-> "cost_id", employee_exit |-> "exit_id",
               hiring_pipeline |-> "hiring_id",
               training_attendance |-> "training_id"]

\* The ForeignKey columns: child table, column, parent table, nullable.
ForeignKeys ==
    { <<"company_revenue", "company_id", "companies", FALSE>>,
      <<"clients", "company_id", "companies", FALSE>>,
      <<"projects", "client_id", "clients", TRUE>>,
      <<"projects", "company_id", "companies", TRUE>>,
      <<"projects", "category_id", "project_categories", TRUE>>,
      <<"project_details", "project_id", "projects", TRUE>>,
      <<"employees", "company_id", "companies", TRUE>>,
      <<"team_members", "project_id", "projects", TRUE>>,
      <<"team_members", "employee_id", "employees", TRUE>>,
      <<"project_goals", "project_id", "projects", TRUE>>,
      <<"milestones", "project_id", "projects", FALSE>>,
      <<"defects", "project_id", "projects", FALSE>>,
      <<"issues", "project_id", "projects", FALSE>>,
      <<"time_entry", "project_id", "projects", FALSE>>,
      <<"time_entry", "employee_id", "employees", FALSE>>,
      <<"project_cost", "project_id", "projects", FALSE>>,
      <<"employee_exit", "employee_id", "employees", FALSE>>,
      <<"training_attendance", "employee_id", "employees", TRUE>> }

\* The database right after Base.metadata.create_all on no tables.
EmptyDb == [t \in Tables |-> <<>>]

\* The primary keys present in a table.
Keys(d, t) == {d[t][i][PrimaryKey[t]] : i \in 1..Len(d[t])}

RECURSIVE Flatten(_)
\* The rows of a nested loop, in the order the loop adds them.
Flatten(ss) == IF ss = <<>> THEN <<>> ELSE Head(ss) \o Flatten(Tail(ss))

\* AUTO_INCREMENT: the flush gives the new rows the next primary keys.
NewKeys(t, n) == [i \in 1..n |-> Len(db[t]) + i]
Insert(t, rows) ==
    db[t] \o [i \in 1..Len(rows) |-> [rows[i] EXCEPT ![PrimaryKey[t]] = Len(db[t]) + i]]

\* What the database rejects at the flush: a foreign key with no parent row or a
\* NULL in a NOT NULL foreign key ...
RejectsForeignKey(t, rows) ==
    \E fk \in ForeignKeys : \E i \in 1..Len(rows) :
        /\ fk[1] = t
        /\ IF rows[i][fk[2]] = NULL THEN ~fk[4]
           ELSE rows[i][fk[2]] \notin Keys(db, fk[3])

\* ... and a second row with a project_code in use (unique=True).
RejectsDuplicate(t, rows) ==
    /\ t = "projects"
    /\ \/ \E i, j \in 1..Len(rows) : i # j /\ rows[i].project_code = rows[j].project_code
       \/ \E i \in 1..Len(rows) : \E j \in 1..Len(db[t]) :
             rows[i].project_code = db[t][j].project_code

Rejects(t, rows) == RejectsForeignKey(t, rows) \/ RejectsDuplicate(t, rows)

\* An uncaught exception ends the script; what the session holds is never committed.
Raise(e) ==
    /\ spc' = "raised"
    /\ exc' = e
    /\ UNCHANGED <<args, seed, db, lists, runs>>
    /\ UNCHANGED chatVars
    /\ UNCHANGED agentVars

\* session.add / add_all of rows to table t, then session.commit()
AddCommit(t, rows, next) ==
    IF RejectsForeignKey(t, rows) THEN Raise("IntegrityError: foreign key")
    ELSE IF RejectsDuplicate(t, rows) THEN Raise("IntegrityError: duplicate")
    ELSE /\ db' = [db EXCEPT ![t] = Insert(t, rows)]
         /\ spc' = next
         /\ UNCHANGED <<args, seed, exc, runs>>
         /\ UNCHANGED chatVars
         /\ UNCHANGED agentVars

\* ---------------------------------------------------------------- the script
EmptyLists == [companies |-> <<>>, clients |-> <<>>, categories |-> <<>>,
               projects |-> <<>>, employees |-> <<>>]

\* Faulty: create_all without drop_all keeps the rows.
recreate_schema_keep(d) == d
\* Base.metadata.drop_all(engine); Base.metadata.create_all(engine)
recreate_schema(d) == EmptyDb

\* main(): recreate_schema(), session = Session(), enter generate_sample_data
main ==
    /\ spc \in {"idle", "done", "raised"}
    /\ runs < MaxRuns
    /\ runs' = runs + 1
    /\ db' = recreate_schema(db)
    /\ \E s \in 0..MaxSeed : seed' = s
    /\ lists' = EmptyLists
    /\ exc' = "none"
    /\ spc' = "companies"
    /\ UNCHANGED args
    /\ UNCHANGED chatVars
    /\ UNCHANGED agentVars

gen_companies ==
    /\ spc = "companies"
    /\ LET rows == [i \in 1..args.num_companies |-> [company_id |-> NULL]]
       IN  /\ AddCommit("companies", rows, "revenue")
           /\ lists' = IF Rejects("companies", rows) THEN lists
                       ELSE [lists EXCEPT !.companies = NewKeys("companies", Len(rows))]

gen_revenue ==
    /\ spc = "revenue"
    /\ LET rows == Flatten([c \in 1..Len(lists.companies) |->
                       [m \in 1..args.num_revenue_months |->
                           [revenue_id |-> NULL, company_id |-> lists.companies[c]]]])
       IN  AddCommit("company_revenue", rows, "clients")
    /\ UNCHANGED lists

gen_clients ==
    /\ spc = "clients"
    /\ LET rows == Flatten([c \in 1..Len(lists.companies) |->
                       [k \in 1..args.num_clients_per_company |->
                           [client_id |-> NULL, company_id |-> lists.companies[c]]]])
       IN  /\ AddCommit("clients", rows, "categories")
           /\ lists' = IF Rejects("clients", rows) THEN lists
                       ELSE [lists EXCEPT !.clients = NewKeys("clients", Len(rows))]

gen_categories ==
    /\ spc = "categories"
    /\ LET rows == [k \in 1..NumCategories |-> [category_id |-> NULL]]
       IN  /\ AddCommit("project_categories", rows, "projects")
           /\ lists' = IF Rejects("project_categories", rows) THEN lists
                       ELSE [lists EXCEPT !.categories =
                                NewKeys("project_categories", Len(rows))]

gen_projects ==
    /\ spc = "projects"
    /\ IF args.num_projects > 0 /\ (lists.clients = <<>> \/ lists.companies = <<>>)
       THEN \* random.choice of an empty list
            Raise("IndexError")
       ELSE LET start(k) == Today - randint(Pos(5, k, 4), 30, 500)
                planned_end(k) == start(k) + randint(Pos(5, k, 5), 50, 150)
                rows == [k \in 1..args.num_projects |->
                           [project_id |-> NULL,
                            project_code |-> ProjectCode(k - 1),
                            client_id |-> choice(Pos(5, k, 1), lists.clients),
                            category_id |-> choice(Pos(5, k, 2), lists.categories),
                            company_id |-> choice(Pos(5, k, 3), lists.companies),
                            start_date |-> start(k),
                            planned_end_date |-> planned_end(k),
                            actual_end_date |->
                                planned_end(k) + randint(Pos(5, k, 6), 0 - 10, 40)]]
            IN  /\ AddCommit("projects", rows, "details")
                /\ lists' = IF Rejects("projects", rows) THEN lists
                            ELSE [lists EXCEPT !.projects = NewKeys("projects", Len(rows))]

\* p.start_date of the project object with primary key p
start_date(p) ==
    db.projects[CHOOSE i \in 1..Len(db.projects) : db.projects[i].project_id = p].start_date

\* Faulty: each detail row is given a project drawn at random.
gen_details_any ==
    /\ spc = "details"
    /\ LET rows == [k \in 1..Len(lists.projects) |->
                       [detail_id |-> NULL,
                        project_id |-> choice(Pos(6, k, 1), lists.projects)]]
       IN  AddCommit("project_details", rows, "employees")
    /\ UNCHANGED lists

\* for p in projects: session.add(ProjectDetail(project_id=p.project_id, ...))
gen_details ==
    /\ spc = "details"
    /\ LET rows == [k \in 1..Len(lists.projects) |->
                       [detail_id |-> NULL, project_id |-> lists.projects[k]]]
       IN  AddCommit("project_details", rows, "employees")
    /\ UNCHANGED lists

gen_employees ==
    /\ spc = "employees"
    /\ IF args.num_employees > 0 /\ lists.companies = <<>>
       THEN Raise("IndexError")
       ELSE LET rows == [k \in 1..args.num_employees |->
                           [employee_id |-> NULL,
                            company_id |-> choice(Pos(7, k, 1), lists.companies)]]
            IN  /\ AddCommit("employees", rows, "team")
                /\ lists' = IF Rejects("employees", rows) THEN lists
                            ELSE [lists EXCEPT !.employees = NewKeys("employees", Len(rows))]

gen_team_members ==
    /\ spc = "team"
    /\ LET size == Min(TeamSize, Len(lists.employees))
           rows == Flatten([k \in 1..Len(lists.projects) |->
                       [j \in 1..size |->
                           [id |-> NULL, project_id |-> lists.projects[k],
                            employee_id |-> sample(Pos(8, k, 1), lists.employees, size)[j]]]])
       IN  AddCommit("team_members", rows, "goals")
    /\ UNCHANGED lists

gen_goals ==
    /\ spc = "goals"
    /\ LET rows == Flatten([k \in 1..Len(lists.projects) |->
                       [j \in 1..randint(Pos(9, k, 1), 2, 5) |->
                           [goal_id |-> NULL, project_id |-> lists.projects[k]]]])
       IN  AddCommit("project_goals", rows, "milestones")
    /\ UNCHANGED lists

\* Faulty: the offset is subtracted from the start date.
gen_milestones_before ==
    /\ spc = "milestones"
    /\ LET planned(k, j) == start_date(lists.projects[k]) - 20 * j
           rows == Flatten([k \in 1..Len(lists.projects) |->
                       [j \in 1..MilestonesPerProject |->
                           [milestone_id |-> NULL, project_id |-> lists.projects[k],
                            planned_date |-> planned(k, j),
                            actual_date |->
                                planned(k, j) + randint(Pos(10, k, j), 0 - 5, 10)]]])
       IN  AddCommit("milestones", rows, "defects")
    /\ UNCHANGED lists

\* m_idx is j - 1
gen_milestones ==
    /\ spc = "milestones"
    /\ LET planned(k, j) == start_date(lists.projects[k]) + 20 * j
           rows == Flatten([k \in 1..Len(lists.projects) |->
                       [j \in 1..MilestonesPerProject |->
                           [milestone_id |-> NULL, project_id |-> lists.projects[k],
                            planned_date |-> planned(k, j),
                            actual_date |->
                                planned(k, j) + randint(Pos(10, k, j), 0 - 5, 10)]]])
       IN  AddCommit("milestones", rows, "defects")
    /\ UNCHANGED lists

gen_defects ==
    /\ spc = "defects"
    /\ LET rows == Flatten([k \in 1..Len(lists.projects) |->
                       [j \in 1..randint(Pos(11, k, 1), 0, 3) |->
                           [defect_id |-> NULL, project_id |-> lists.projects[k],
                            reported_date |-> start_date(lists.projects[k])
                                              + randint(Pos(11, k, 10 + j), 1, 40)]]])
       IN  AddCommit("defects", rows, "issues")
    /\ UNCHANGED lists

gen_issues ==
    /\ spc = "issues"
    /\ LET rows == Flatten([k \in 1..Len(lists.projects) |->
                       [j \in 1..randint(Pos(12, k, 1), 0, 2) |->
                           [issue_id |-> NULL, project_id |-> lists.projects[k],
                            reported_date |-> start_date(lists.projects[k])
                                              + randint(Pos(12, k, 10 + j), 1, 40),
                            resolved_date |->
                                IF random_tenths(Pos(12, k, 20 + j)) > 4
                                THEN start_date(lists.projects[k])
                                     + randint(Pos(12, k, 30 + j), 20, 80)
                                ELSE NULL]]])
       IN  AddCommit("issues", rows, "time")
    /\ UNCHANGED lists

\* The commits every 500 entries inside the loop are not reached before the
\* final one at these sizes, and the loop can only raise at i = 0.
gen_time_entries ==
    /\ spc = "time"
    /\ IF args.num_time_entries > 0 /\ (lists.projects = <<>> \/ lists.employees = <<>>)
       THEN \* i % len(projects), i % len(employees) with an empty list
            Raise("ZeroDivisionError")
       ELSE LET rows == [k \in 1..args.num_time_entries |->
                           [time_entry_id |-> NULL,
                            project_id |->
                                lists.projects[((k - 1) % Len(lists.projects)) + 1],
                            employee_id |->
                                lists.employees[((k - 1) % Len(lists.employees)) + 1],
                            date |->
                                start_date(lists.projects[((k - 1) % Len(lists.projects)) + 1])
                                + randint(Pos(13, k, 1), 0, 90)]]
            IN  AddCommit("time_entry", rows, "cost")
    /\ UNCHANGED lists

gen_project_cost ==
    /\ spc = "cost"
    /\ LET rows == Flatten([k \in 1..Len(lists.projects) |->
                       [j \in 1..randint(Pos(14, k, 1), 1, 3) |->
                           [cost_id |-> NULL, project_id |-> lists.projects[k],
                            recorded_date |-> start_date(lists.projects[k])
                                              + randint(Pos(14, k, 10 + j), 0, 120)]]])
       IN  AddCommit("project_cost", rows, "exits")
    /\ UNCHANGED lists

\* max(1, int(num_employees * 0.05)); the float product truncates to n*5 div 100
\* at the sizes explored.
exit_count == Max(1, (args.num_employees * 5) \div 100)

gen_employee_exits ==
    /\ spc = "exits"
    /\ IF exit_count > Len(lists.employees)
       THEN \* random.sample: sample larger than population
            Raise("ValueError")
       ELSE LET picked == sample(Pos(15, 0, 1), lists.employees, exit_count)
                rows == [k \in 1..exit_count |->
                           [exit_id |-> NULL, employee_id |-> picked[k]]]
            IN  AddCommit("employee_exit", rows, "hiring")
    /\ UNCHANGED lists

gen_hiring_pipeline ==
    /\ spc = "hiring"
    /\ LET rows == [k \in 1..NumHiringRows |-> [hiring_id |-> NULL]]
       IN  AddCommit("hiring_pipeline", rows, "training")
    /\ UNCHANGED lists

gen_training ==
    /\ spc = "training"
    /\ LET rows == Flatten([k \in 1..Len(lists.employees) |->
                       IF (k - 1) % TrainingEvery = 0
                       THEN << [training_id |-> NULL, employee_id |-> lists.employees[k]] >>
                       ELSE << >>])
       IN  AddCommit("training_attendance", rows, "kpi")
    /\ UNCHANGED lists

insert_kpi_catalog ==
    /\ spc = "kpi"
    /\ LET rows == [k \in 1..NumKpis |-> [kpi_id |-> NULL]]
       IN  AddCommit("kpi_catalog", rows, "close")
    /\ UNCHANGED lists

\* session.close(); main() returns
main_close ==
    /\ spc = "close"
    /\ spc' = "done"
    /\ UNCHANGED <<args, seed, db, lists, exc, runs>>
    /\ UNCHANGED chatVars
    /\ UNCHANGED agentVars

generate_sample_data ==
    \/ gen_companies
    \/ gen_revenue
    \/ gen_clients
    \/ gen_categories
    \/ gen_projects
    \/ gen_details
    \/ gen_employees
    \/ gen_team_members
    \/ gen_goals
    \/ gen_milestones
    \/ gen_defects
    \/ gen_issues
    \/ gen_time_entries
    \/ gen_project_cost
    \/ gen_employee_exits
    \/ gen_hiring_pipeline
    \/ gen_training

ArgSpace == [num_companies : 0..MaxCompanies,
             num_clients_per_company : 0..MaxClientsPerCompany,
             num_projects : 0..MaxProjects,
             num_employees : 0..MaxEmployees,
             num_revenue_months : 0..MaxRevenueMonths,
             num_time_entries : 0..MaxTimeEntries]

\* Before the first run of the script: an empty database, nothing drawn yet.
SeedStart(a) ==
    /\ args = a
    /\ seed = 0
    /\ spc = "idle"
    /\ db = EmptyDb
    /\ lists = EmptyLists
    /\ exc = "none"
    /\ runs = 0

\* ------------------------------------------------------------ chat service
Sessions == {"A", "B"}
Messages == {"m1", "m2"}
\* What the model answers, and the messages of the exceptions the call raises.
Contents == {"hello"}
Errors == {"timeout"}
Requests == 1..MaxRequests

\* os.getenv of a variable that is not set
None == "<None>"
EnvValues == {None, "", "sk-key"}
Modules == {"main", "db-agent"}

\* A key of store that is not there.
Absent == 0

NoRequest == [pc |-> "idle", session_id |-> "", message |-> "", hist |-> Absent,
              loaded |-> <<>>, content |-> "", error |-> ""]

NoResponse == [endpoint |-> "none", session_id |-> "", request |-> 0, status |-> 0,
               body |-> <<>>]

\* ----- the SQL agent's state (db-agent.py 37-97)
\* The tables of the connected database the agent's statements name here: the
\* two of the schema that no foreign key ties to another table.
AgentTables == {"kpi_catalog", "hiring_pipeline"}

\* A table that has been dropped.
Dropped == 0 - 1

\* The connected database holds the seeded schema: the row count of each table.
SeededRemote == [kpi_catalog |-> NumKpis, hiring_pipeline |-> NumHiringRows]

\* The SQL text the model can write into a tool call: one statement on one table.
StatementKinds == {"SELECT", "DELETE", "DROP"}
Statements == [kind : StatementKinds, table : AgentTables]

NoCall == [name |-> "none", arg |-> ""]

\* The tool calls the model can ask for: toolkit.get_tools()
ToolCalls ==
    {[name |-> "sql_db_list_tables", arg |-> ""]}
    \cup {[name |-> "sql_db_schema", arg |-> t] : t \in AgentTables}
    \cup {[name |-> "sql_db_query_checker", arg |-> q] : q \in Statements}
    \cup {[name |-> "sql_db_query", arg |-> q] : q \in Statements}

\* Before agent.stream: no tool called, no statement sent to the database.
NoAgent == [pc |-> "off", calls |-> 0, call |-> NoCall, sent |-> <<>>,
            observation |-> ""]

\* A process about to import the module, in an environment whose
\* OPENAI_API_KEY (after load_dotenv) is k.
ProcessStart(k, m) ==
    /\ env = k
    /\ module = m
    /\ boot = "load_env"
    /\ api_key = None
    /\ created = [llm |-> FALSE, store |-> FALSE, app |-> FALSE, agent |-> FALSE]
    /\ store = [s \in Sessions |-> Absent]
    /\ heap = <<>>
    /\ req = [r \in Requests |-> NoRequest]
    /\ cleared = {}
    /\ response = NoResponse
    /\ agent = NoAgent
    /\ remote = SeededRemote

\* ----- start-up (main.py 17-77, db-agent.py 18-80)
\* load_dotenv(); api_key = os.getenv("OPENAI_API_KEY")
load_env ==
    /\ boot = "load_env"
    /\ api_key' = env
    /\ boot' = "check_key"
    /\ UNCHANGED <<env, module, created, store, heap, req, cleared, response>>
    /\ UNCHANGED seedVars
    /\ UNCHANGED agentVars

\* Faulty: api_key is None lets the empty string through.
KeyIsNone(k) == k = None
\* not api_key
KeyMissing(k) == k = None \/ k = ""

\* if not api_key: raise ValueError(...)
check_key ==
    /\ boot = "check_key"
    /\ boot' = IF KeyMissing(api_key) THEN "ValueError" ELSE "init_llm"
    /\ UNCHANGED <<env, module, api_key, created, store, heap, req,
                   cleared, response>>
    /\ UNCHANGED seedVars
    /\ UNCHANGED agentVars

\* llm = ChatOpenAI(...); main.py also builds prompt and chain
init_llm ==
    /\ boot = "init_llm"
    /\ created' = [created EXCEPT !.llm = TRUE]
    /\ boot' = IF module = "main" THEN "init_store" ELSE "init_agent"
    /\ UNCHANGED <<env, module, api_key, store, heap, req, cleared, response>>
    /\ UNCHANGED seedVars
    /\ UNCHANGED agentVars

\* store = {}; chain_with_history = RunnableWithMessageHistory(...)
init_store ==
    /\ boot = "init_store"
    /\ created' = [created EXCEPT !.store = TRUE]
    /\ store' = [s \in Sessions |-> Absent]
    /\ boot' = "init_app"
    /\ UNCHANGED <<env, module, api_key, heap, req, cleared, response>>
    /\ UNCHANGED seedVars
    /\ UNCHANGED agentVars

\* app = FastAPI(...); the routes are registered and the server serves
init_app ==
    /\ boot = "init_app"
    /\ created' = [created EXCEPT !.app = TRUE]
    /\ boot' = "serving"
    /\ UNCHANGED <<env, module, api_key, store, heap, req, cleared, response>>
    /\ UNCHANGED seedVars
    /\ UNCHANGED agentVars

\* db-agent.py: db, toolkit, tools, system_prompt, agent
init_agent ==
    /\ boot = "init_agent"
    /\ created' = [created EXCEPT !.agent = TRUE]
    /\ boot' = "agent_ready"
    /\ UNCHANGED <<env, module, api_key, store, heap, req, cleared, response>>
    /\ UNCHANGED seedVars
    /\ UNCHANGED agentVars

\* ----- the message log of a session
HumanMessage(m) == [class |-> "HumanMessage", content |-> m]
AIMessage(c) == [class |-> "AIMessage", content |-> c]

\* The chat requests that have arrived so far.  cleared holds those that arrived
\* before the latest DELETE of their session.
Arrived == {q \in Requests : req[q].pc # "idle"}

\* The latest response of an endpoint; r is the chat request it answers, 0 for
\* the other endpoints.
Respond(endpoint, s, r, status, body) ==
    response' = [endpoint |-> endpoint, session_id |-> s, request |-> r,
                 status |-> status, body |-> body]

\* ----- POST /chat
\* Faulty: a per-session lock, taken at arrival.
chat_locked(r, s, m) ==
    /\ boot = "serving"
    /\ req[r].pc = "idle"
    /\ \A q \in Requests : q < r => req[q].pc # "idle"
    /\ \A q \in Requests : req[q].session_id = s => req[q].pc = "done"
    /\ req' = [req EXCEPT ![r] = [NoRequest EXCEPT !.pc = "gsh_check",
                                     !.session_id = s, !.message = m]]
    /\ UNCHANGED <<env, module, boot, api_key, created, store, heap, cleared, response>>
    /\ UNCHANGED seedVars
    /\ UNCHANGED agentVars

\* The request arrives; requests are numbered in the order they arrive.
chat(r, s, m) ==
    /\ boot = "serving"
    /\ req[r].pc = "idle"
    /\ \A q \in Requests : q < r => req[q].pc # "idle"
    /\ req' = [req EXCEPT ![r] = [NoRequest EXCEPT !.pc = "gsh_check",
                                     !.session_id = s, !.message = m]]
    /\ UNCHANGED <<env, module, boot, api_key, created, store, heap, cleared, response>>
    /\ UNCHANGED seedVars
    /\ UNCHANGED agentVars

\* Faulty: the membership test is missing, every request makes a new history.
gsh_check_always_new(r) ==
    /\ req[r].pc = "gsh_check"
    /\ req' = [req EXCEPT ![r].pc = "gsh_create"]
    /\ UNCHANGED <<env, module, boot, api_key, created, store, heap,
                   cleared, response>>
    /\ UNCHANGED seedVars
    /\ UNCHANGED agentVars

\* get_session_history: if session_id not in store
gsh_check(r) ==
    /\ req[r].pc = "gsh_check"
    /\ req' = [req EXCEPT ![r].pc =
                  IF store[req[r].session_id] = Absent THEN "gsh_create" ELSE "gsh_return"]
    /\ UNCHANGED <<env, module, boot, api_key, created, store, heap,
                   cleared, response>>
    /\ UNCHANGED seedVars
    /\ UNCHANGED agentVars

\* get_session_history: store[session_id] = InMemoryChatMessageHistory()
gsh_create(r) ==
    /\ req[r].pc = "gsh_create"
    /\ heap' = Append(heap, <<>>)
    /\ store' = [store EXCEPT ![req[r].session_id] = Len(heap) + 1]
    /\ req' = [req EXCEPT ![r].pc = "gsh_return"]
    /\ UNCHANGED <<env, module, boot, api_key, created, cleared, response>>
    /\ UNCHANGED seedVars
    /\ UNCHANGED agentVars

\* get_session_history: return store[session_id]
gsh_return(r) ==
    /\ req[r].pc = "gsh_return"
    /\ req' = [req EXCEPT ![r].hist = store[req[r].session_id], ![r].pc = "load"]
    /\ UNCHANGED <<env, module, boot, api_key, created, store, heap,
                   cleared, response>>
    /\ UNCHANGED seedVars
    /\ UNCHANGED agentVars

\* RunnableWithMessageHistory: the history placeholder gets a copy of hist.messages
load_history(r) ==
    /\ req[r].pc = "load"
    /\ req' = [req EXCEPT ![r].loaded = heap[req[r].hist], ![r].pc = "llm"]
    /\ UNCHANGED <<env, module, boot, api_key, created, store, heap,
                   cleared, response>>
    /\ UNCHANGED seedVars
    /\ UNCHANGED agentVars

\* prompt | llm returns an AIMessage
llm_ok(r, c) ==
    /\ req[r].pc = "llm"
    /\ req' = [req EXCEPT ![r].content = c, ![r].pc = "save_human"]
    /\ UNCHANGED <<env, module, boot, api_key, created, store, heap,
                   cleared, response>>
    /\ UNCHANGED seedVars
    /\ UNCHANGED agentVars

\* Faulty: the input message is stored before the chain runs.
llm_raise_saving(r, e) ==
    /\ req[r].pc = "llm"
    /\ heap' = [heap EXCEPT ![req[r].hist] = Append(@, HumanMessage(req[r].message))]
    /\ req' = [req EXCEPT ![r].error = e, ![r].pc = "except"]
    /\ UNCHANGED <<env, module, boot, api_key, created, store, cleared, response>>
    /\ UNCHANGED seedVars
    /\ UNCHANGED agentVars

\* prompt | llm raises: the history is not written, the exception reaches chat()
llm_raise(r, e) ==
    /\ req[r].pc = "llm"
    /\ req' = [req EXCEPT ![r].error = e, ![r].pc = "except"]
    /\ UNCHANGED <<env, module, boot, api_key, created, store, heap,
                   cleared, response>>
    /\ UNCHANGED seedVars
    /\ UNCHANGED agentVars

\* Faulty: only the output message is stored.
save_human_skip(r) ==
    /\ req[r].pc = "save_human"
    /\ heap' = heap
    /\ req' = [req EXCEPT ![r].pc = "save_ai"]
    /\ UNCHANGED <<env, module, boot, api_key, created, store, cleared, response>>
    /\ UNCHANGED seedVars
    /\ UNCHANGED agentVars

\* after the chain ended: hist.add_messages([input, output]), one append each
save_human(r) ==
    /\ req[r].pc = "save_human"
    /\ heap' = [heap EXCEPT ![req[r].hist] = Append(@, HumanMessage(req[r].message))]
    /\ req' = [req EXCEPT ![r].pc = "save_ai"]
    /\ UNCHANGED <<env, module, boot, api_key, created, store, cleared, response>>
    /\ UNCHANGED seedVars
    /\ UNCHANGED agentVars

save_ai(r) ==
    /\ req[r].pc = "save_ai"
    /\ heap' = [heap EXCEPT ![req[r].hist] = Append(@, AIMessage(req[r].content))]
    /\ req' = [req EXCEPT ![r].pc = "return"]
    /\ UNCHANGED <<env, module, boot, api_key, created, store, cleared, response>>
    /\ UNCHANGED seedVars
    /\ UNCHANGED agentVars

\* Faulty: the exception leaves the handler, FastAPI answers 500.
chat_reraise(e) == [status |-> 500, body |-> [detail |-> "Internal Server Error"]]
\* except Exception as e: return ChatResponse(reply=f"Error: {str(e)}")
chat_except(e) == [status |-> 200, body |-> [reply |-> "Error: " \o e]]

\* return ChatResponse(reply=reply)
chat_return(r) ==
    /\ req[r].pc = "return"
    /\ req' = [req EXCEPT ![r].pc = "done"]
    /\ Respond("chat", req[r].session_id, r, 200, [reply |-> req[r].content])
    /\ UNCHANGED <<env, module, boot, api_key, created, store, heap, cleared>>
    /\ UNCHANGED seedVars
    /\ UNCHANGED agentVars

\* the except clause of chat()
chat_error(r) ==
    /\ req[r].pc = "except"
    /\ req' = [req EXCEPT ![r].pc = "done"]
    /\ Respond("chat", req[r].session_id, r, chat_except(req[r].error).status,
               chat_except(req[r].error).body)
    /\ UNCHANGED <<env, module, boot, api_key, created, store, heap, cleared>>
    /\ UNCHANGED seedVars
    /\ UNCHANGED agentVars

\* ----- DELETE /chat/{session_id}
\* Faulty: the messages are not cleared.
clear_history_keep(s) ==
    /\ boot = "serving"
    /\ heap' = heap
    /\ IF store[s] # Absent
       THEN Respond("clear", s, 0, 200, [message |-> "History cleared for session " \o s])
       ELSE Respond("clear", s, 0, 200, [message |-> "Session not found"])
    /\ cleared' = cleared \cup {q \in Arrived : req[q].session_id = s}
    /\ UNCHANGED <<env, module, boot, api_key, created, store, req>>
    /\ UNCHANGED seedVars
    /\ UNCHANGED agentVars

\* Faulty: the DELETE removes the session from the store.
clear_history_pop(s) ==
    /\ boot = "serving"
    /\ store' = [store EXCEPT ![s] = Absent]
    /\ IF store[s] # Absent
       THEN Respond("clear", s, 0, 200, [message |-> "History cleared for session " \o s])
       ELSE Respond("clear", s, 0, 200, [message |-> "Session not found"])
    /\ cleared' = cleared \cup {q \in Arrived : req[q].session_id = s}
    /\ UNCHANGED <<env, module, boot, api_key, created, heap, req>>
    /\ UNCHANGED seedVars
    /\ UNCHANGED agentVars

\* Faulty: the DELETE clears the log of every session.
clear_history_all(s) ==
    /\ boot = "serving"
    /\ IF store[s] # Absent
       THEN /\ heap' = [i \in DOMAIN heap |-> <<>>]
            /\ Respond("clear", s, 0, 200,
                       [message |-> "History cleared for session " \o s])
       ELSE /\ heap' = heap
            /\ Respond("clear", s, 0, 200, [message |-> "Session not found"])
    /\ cleared' = cleared \cup {q \in Arrived : req[q].session_id = s}
    /\ UNCHANGED <<env, module, boot, api_key, created, store, req>>
    /\ UNCHANGED seedVars
    /\ UNCHANGED agentVars

\* if session_id in store: store[session_id].clear()
clear_history(s) ==
    /\ boot = "serving"
    /\ IF store[s] # Absent
       THEN /\ heap' = [heap EXCEPT ![store[s]] = <<>>]
            /\ Respond("clear", s, 0, 200,
                       [message |-> "History cleared for session " \o s])
       ELSE /\ heap' = heap
            /\ Respond("clear", s, 0, 200, [message |-> "Session not found"])
    /\ cleared' = cleared \cup {q \in Arrived : req[q].session_id = s}
    /\ UNCHANGED <<env, module, boot, api_key, created, store, req>>
    /\ UNCHANGED seedVars
    /\ UNCHANGED agentVars

\* ----- GET /chat/{session_id}/history
\* [{"type": msg.__class__.__name__, "content": msg.content} for msg in messages]
Payload(messages) ==
    [i \in 1..Len(messages) |-> [type |-> messages[i].class, content |-> messages[i].content]]

HistoryBody(s) ==
    IF store[s] # Absent
    THEN [session_id |-> s, message_count |-> Len(heap[store[s]]),
          messages |-> Payload(heap[store[s]])]
    ELSE [message |-> "Session not found", messages |-> <<>>]

\* Faulty: the read goes through get_session_history and registers the session.
get_history_creating(s) ==
    /\ boot = "serving"
    /\ Respond("history", s, 0, 200, HistoryBody(s))
    /\ IF store[s] = Absent
       THEN /\ heap' = Append(heap, <<>>)
            /\ store' = [store EXCEPT ![s] = Len(heap) + 1]
       ELSE UNCHANGED <<store, heap>>
    /\ UNCHANGED <<env, module, boot, api_key, created, req, cleared>>
    /\ UNCHANGED seedVars
    /\ UNCHANGED agentVars

get_history(s) ==
    /\ boot = "serving"
    /\ Respond("history", s, 0, 200, HistoryBody(s))
    /\ UNCHANGED <<env, module, boot, api_key, created, store, heap, req,
                   cleared>>
    /\ UNCHANGED seedVars
    /\ UNCHANGED agentVars

\* ----- the run of the SQL agent (db-agent.py 82-97)
\* for step in agent.stream({"messages": [question]}): the graph enters its
\* model node
agent_stream ==
    /\ boot = "agent_ready"
    /\ agent.pc = "off"
    /\ agent' = [agent EXCEPT !.pc = "model"]
    /\ UNCHANGED remote
    /\ UNCHANGED seedVars
    /\ UNCHANGED chatVars

\* The model node: the LLM, given system_prompt and the messages so far, answers
\* with a tool call.  The prompt asks it not to write DML; what it writes is its
\* own choice, and nothing between the model and the tools inspects it.
agent_model_call(c) ==
    /\ agent.pc = "model"
    /\ agent.calls < MaxToolCalls
    /\ agent' = [agent EXCEPT !.pc = "tools", !.call = c, !.calls = @ + 1]
    /\ UNCHANGED remote
    /\ UNCHANGED seedVars
    /\ UNCHANGED chatVars

\* The model node: the LLM answers without a tool call, the graph ends.
agent_model_answer ==
    /\ agent.pc = "model"
    /\ agent' = [agent EXCEPT !.pc = "end", !.call = NoCall]
    /\ UNCHANGED remote
    /\ UNCHANGED seedVars
    /\ UNCHANGED chatVars

\* The tools node returns the tool's output to the model node.
Observe(o) == agent' = [agent EXCEPT !.pc = "model", !.observation = o]

\* sql_db_list_tables: db.get_usable_table_names()
sql_db_list_tables ==
    /\ agent.pc = "tools"
    /\ agent.call.name = "sql_db_list_tables"
    /\ Observe("tables")
    /\ UNCHANGED remote
    /\ UNCHANGED seedVars
    /\ UNCHANGED chatVars

\* sql_db_schema: db.get_table_info_no_throw(tables)
sql_db_schema ==
    /\ agent.pc = "tools"
    /\ agent.call.name = "sql_db_schema"
    /\ Observe(IF remote[agent.call.arg] = Dropped THEN "Error: table not found"
               ELSE "schema")
    /\ UNCHANGED remote
    /\ UNCHANGED seedVars
    /\ UNCHANGED chatVars

\* sql_db_query_checker: the LLM reviews the query text; nothing is executed
sql_db_query_checker ==
    /\ agent.pc = "tools"
    /\ agent.call.name = "sql_db_query_checker"
    /\ Observe("checked")
    /\ UNCHANGED remote
    /\ UNCHANGED seedVars
    /\ UNCHANGED chatVars

\* What executing statement q leaves in the database: engine.begin(),
\* connection.execute(text(q)), commit.  A statement that fails changes nothing.
Execute(q) ==
    IF remote[q.table] = Dropped THEN remote
    ELSE CASE q.kind = "SELECT" -> remote
           [] q.kind = "DELETE" -> [remote EXCEPT ![q.table] = 0]
           [] q.kind = "DROP" -> [remote EXCEPT ![q.table] = Dropped]

\* What the tool hands back: the rows, or the error as a string.
Result(q) ==
    IF remote[q.table] = Dropped THEN "Error: relation does not exist"
    ELSE IF q.kind = "SELECT" THEN "rows" ELSE ""

\* sql_db_query: db.run_no_throw(query) runs the text it is given
sql_db_query ==
    /\ agent.pc = "tools"
    /\ agent.call.name = "sql_db_query"
    /\ remote' = Execute(agent.call.arg)
    /\ agent' = [agent EXCEPT !.pc = "model", !.observation = Result(agent.call.arg),
                              !.sent = Append(@, agent.call.arg)]
    /\ UNCHANGED seedVars
    /\ UNCHANGED chatVars

agent_run ==
    \/ agent_stream
    \/ \E c \in ToolCalls : agent_model_call(c)
    \/ agent_model_answer
    \/ sql_db_list_tables
    \/ sql_db_schema
    \/ sql_db_query_checker
    \/ sql_db_query

startup ==
    \/ load_env
    \/ check_key
    \/ init_llm
    \/ init_store
    \/ init_app
    \/ init_agent

\* A request arrives at one of the three endpoints.
arrival ==
    \/ \E r \in Requests : \E s \in Sessions : \E m \in Messages : chat(r, s, m)
    \/ \E s \in Sessions : clear_history(s)
    \/ \E s \in Sessions : get_history(s)

\* A thread of the pool takes the next step of a chat request.
post_chat ==
    \/ \E r \in Requests : gsh_check(r)
    \/ \E r \in Requests : gsh_create(r)
    \/ \E r \in Requests : gsh_return(r)
    \/ \E r \in Requests : load_history(r)
    \/ \E r \in Requests : \E c \in Contents : llm_ok(r, c)
    \/ \E r \in Requests : \E e \in Errors : llm_raise(r, e)
    \/ \E r \in Requests : save_human(r)
    \/ \E r \in Requests : save_ai(r)
    \/ \E r \in Requests : chat_return(r)
    \/ \E r \in Requests : chat_error(r)

\* A service process, beside a database nobody is seeding.
Init ==
    /\ \E k \in EnvValues : \E m \in Modules : ProcessStart(k, m)
    /\ SeedStart([num_companies |-> 0, num_clients_per_company |-> 0,
                  num_projects |-> 0, num_employees |-> 0,
                  num_revenue_months |-> 0, num_time_entries |-> 0])

Next ==
    \/ startup
    \/ arrival
    \/ post_chat
    \/ agent_run

Spec == Init /\ [][Next]_vars

\* No chat request is between its arrival and its response.
Quiet == \A q \in Requests : req[q].pc \in {"idle", "done"}

\* The same process when its clients send one request at a time.
SeqNext ==
    \/ startup
    \/ Quiet /\ arrival
    \/ post_chat

SeqSpec == Init /\ [][SeqNext]_vars

\* The same process when its clients only post chat messages, any number at once.
PostNext ==
    \/ startup
    \/ \E r \in Requests : \E s \in Sessions : \E m \in Messages : chat(r, s, m)
    \/ post_chat

PostSpec == Init /\ [][PostNext]_vars

\* ------------------------------------------------------- the specifications
\* The SQL agent's process alone: db-agent.py from its import to the end of
\* agent.stream.
AgentInit ==
    /\ \E k \in EnvValues : ProcessStart(k, "db-agent")
    /\ SeedStart([num_companies |-> 0, num_clients_per_company |-> 0,
                  num_projects |-> 0, num_employees |-> 0,
                  num_revenue_months |-> 0, num_time_entries |-> 0])

AgentNext ==
    \/ load_env
    \/ check_key
    \/ init_llm
    \/ init_agent
    \/ agent_run

AgentSpec == AgentInit /\ [][AgentNext]_vars

\* The seed script alone, no service process running.
SeedInit ==
    /\ \E a \in ArgSpace : SeedStart(a)
    /\ ProcessStart("sk-key", "main")

SeedNext ==
    \/ main
    \/ generate_sample_data
    \/ insert_kpi_catalog
    \/ main_close

SeedSpec == SeedInit /\ [][SeedNext]_vars

\* ------------------------------------------------------------ seed: claims
\* The foreign keys of the committed rows all name a committed parent row.
RefIntegrity ==
    \A fk \in ForeignKeys : \A i \in 1..Len(db[fk[1]]) :
        db[fk[1]][i][fk[2]] \in Keys(db, fk[3])

\* C1: at every commit point of generate_sample_data and after it, every foreign
\* key of every generated row holds the primary key of an existing parent row:
\* none is NULL or dangling, in the database or in a flush the database refuses.
C1_ReferentialIntegrity ==
    /\ RefIntegrity
    /\ exc # "IntegrityError: foreign key"

\* A finished run with rows in every child table and parents that differ.
C1_Witness ==
    /\ spc = "done"
    /\ \A fk \in ForeignKeys : Len(db[fk[1]]) > 0
    /\ \E i, j \in 1..Len(db.employees) :
          db.employees[i].company_id # db.employees[j].company_id
    /\ \E i, j \in 1..Len(db.time_entry) :
          db.time_entry[i].project_id # db.time_entry[j].project_id

DigitValue(c) == CHOOSE d \in 0..9 : Digit(d) = c

RECURSIVE Parse(_)
\* int(digits)
Parse(ds) == IF ds = <<>> THEN 0
             ELSE Parse(SubSeq(ds, 1, Len(ds) - 1)) * 10 + DigitValue(ds[Len(ds)])

\* C2: the projects of one run have pairwise distinct project_code values, project
\* i (the i-th inserted, from 0) has the code PRJ<i+1000>, and the unique
\* constraint on project_code never refuses a flush.
C2_ProjectCodesDistinct ==
    /\ \A i, j \in 1..Len(db.projects) :
          i # j => db.projects[i].project_code # db.projects[j].project_code
    /\ \A i \in 1..Len(db.projects) :
          LET code == db.projects[i].project_code
          IN  /\ SubSeq(code, 1, 3) = <<"P", "R", "J">>
              /\ Parse(SubSeq(code, 4, Len(code))) = (db.projects[i].project_id - 1) + 1000
    /\ exc # "IntegrityError: duplicate"

\* A run that committed at least two projects.
C2_Witness ==
    /\ spc = "done"
    /\ Len(db.projects) >= 2

\* The row counts one run of main() leaves, from its arguments alone.
SingleRunCounts ==
    /\ Len(db.companies) = args.num_companies
    /\ Len(db.company_revenue) = args.num_companies * args.num_revenue_months
    /\ Len(db.clients) = args.num_companies * args.num_clients_per_company
    /\ Len(db.project_categories) = 4
    /\ Len(db.projects) = args.num_projects
    /\ Len(db.project_details) = args.num_projects
    /\ Len(db.employees) = args.num_employees
    /\ Len(db.team_members) = args.num_projects * Min(5, args.num_employees)
    /\ Len(db.project_goals) \in (2 * args.num_projects)..(5 * args.num_projects)
    /\ Len(db.milestones) = 2 * args.num_projects
    /\ Len(db.defects) \in 0..(3 * args.num_projects)
    /\ Len(db.issues) \in 0..(2 * args.num_projects)
    /\ Len(db.time_entry) = args.num_time_entries
    /\ Len(db.project_cost) \in args.num_projects..(3 * args.num_projects)
    /\ Len(db.employee_exit) = Max(1, args.num_employees \div 20)
    /\ Len(db.hiring_pipeline) = 12
    /\ Len(db.training_attendance) = (args.num_employees + 2) \div 3
    /\ Len(db.kpi_catalog) = 7

\* C6: every run of main() starts seeding from tables with zero rows, and after
\* any number of runs the database holds the rows of the last run only.
C6_FullReset ==
    /\ spc = "companies" => \A t \in Tables : db[t] = <<>>
    /\ spc = "done" => SingleRunCounts

\* A second run of main() has finished on a database the first run had filled.
C6_Witness ==
    /\ spc = "done"
    /\ runs >= 2
    /\ Len(db.projects) > 0
    /\ Len(db.kpi_catalog) = 7

\* The detail rows of the project with primary key p.
DetailsOf(p) == {i \in 1..Len(db.project_details) : db.project_details[i].project_id = p}

\* The blocks of generate_sample_data that run before the project details are
\* committed.
BeforeDetails == {"idle", "companies", "revenue", "clients", "categories",
                  "projects", "details"}

\* The details block has committed: the run is past it and did not end before
\* it (an IndexError ends a run in the projects block, or in the employees
\* block of a run that was asked for no project).
DetailsCommitted == spc \notin BeforeDetails /\ exc # "IndexError"

\* C12: once the project details are committed, every project has exactly one
\* ProjectDetail row, the detail rows belong to pairwise distinct projects, and
\* there are num_projects of them.
C12_OneDetailPerProject ==
    /\ \A i, j \in 1..Len(db.project_details) :
          i # j => db.project_details[i].project_id # db.project_details[j].project_id
    /\ DetailsCommitted =>
          /\ \A p \in Keys(db, "projects") : Cardinality(DetailsOf(p)) = 1
          /\ Len(db.project_details) = args.num_projects

\* A finished run with at least two projects, each with its detail row.
C12_Witness ==
    /\ spc = "done"
    /\ Len(db.projects) >= 2
    /\ Len(db.project_details) = Len(db.projects)
    /\ \E i, j \in 1..Len(db.project_details) :
          db.project_details[i].project_id # db.project_details[j].project_id

\* The committed row of the project with primary key p.
ProjectOf(p) ==
    db.projects[CHOOSE i \in 1..Len(db.projects) : db.projects[i].project_id = p]

\* The dated columns of the child tables of a project.
DatedColumns == { <<"milestones", "planned_date">>, <<"defects", "reported_date">>,
                  <<"issues", "reported_date">>, <<"issues", "resolved_date">>,
                  <<"time_entry", "date">>, <<"project_cost", "recorded_date">> }

\* The dated columns whose offset from start_date can exceed the 50 days that
\* planned_end_date is at least away, with the largest offset the code draws.
LateColumns == { <<"issues", "resolved_date", 80>>, <<"time_entry", "date", 90>>,
                 <<"project_cost", "recorded_date", 120>> }

\* The end dates of every project are later than its start date.
EndsAfterStart ==
    \A i \in 1..Len(db.projects) :
        /\ db.projects[i].planned_end_date > db.projects[i].start_date
        /\ db.projects[i].actual_end_date > db.projects[i].start_date

\* C13 as stated: the end dates of a project are later than its start date, and
\* every dated child row of a project lies between the project's start_date and
\* its planned_end_date.
C13_DatesWithinProject ==
    /\ EndsAfterStart
    /\ \A tc \in DatedColumns : \A i \in 1..Len(db[tc[1]]) :
          LET row == db[tc[1]][i]
          IN  row[tc[2]] # NULL =>
                  /\ row[tc[2]] >= ProjectOf(row.project_id).start_date
                  /\ row[tc[2]] <= ProjectOf(row.project_id).planned_end_date

\* C13 amended: the end dates of a project are later than its start date; no
\* dated child row is earlier than the project's start_date; milestone
\* planned_date, defect reported_date and issue reported_date are not later than
\* planned_end_date; issue resolved_date, time entry date and cost recorded_date
\* are at most 80, 90 and 120 days after start_date.
C13_DatesAfterStart ==
    /\ EndsAfterStart
    /\ \A tc \in DatedColumns : \A i \in 1..Len(db[tc[1]]) :
          LET row == db[tc[1]][i]
              project == ProjectOf(row.project_id)
          IN  row[tc[2]] # NULL =>
                  /\ row[tc[2]] >= project.start_date
                  /\ (\A lc \in LateColumns : <<lc[1], lc[2]>> # tc)
                        => row[tc[2]] <= project.planned_end_date
                  /\ \A lc \in LateColumns :
                        <<lc[1], lc[2]>> = tc => row[tc[2]] <= project.start_date + lc[3]

\* A finished run with a row in every dated child table, among them an issue
\* resolved, a time entry and a cost recorded after the planned end.
C13_Witness ==
    /\ spc = "done"
    /\ \A tc \in DatedColumns : Len(db[tc[1]]) > 0
    /\ \A lc \in LateColumns : \E i \in 1..Len(db[lc[1]]) :
          LET row == db[lc[1]][i]
          IN  /\ row[lc[2]] # NULL
              /\ row[lc[2]] > ProjectOf(row.project_id).planned_end_date

\* C8: for every combination of non-negative row counts, zero included, the
\* generator runs to completion without raising.
C8_NeverRaises == spc # "raised"

\* ----------------------------------------------------- chat service: claims
\* The chat request r has been answered with the model's content.
Succeeded(r) == req[r].pc = "done" /\ req[r].error = ""

\* The payload lists the human message m1 before the human message m2.
SentInOrder(messages, m1, m2) ==
    \E i, j \in 1..Len(messages) :
        /\ i < j
        /\ messages[i] = [type |-> "HumanMessage", content |-> m1]
        /\ messages[j] = [type |-> "HumanMessage", content |-> m2]

\* The latest response is the history of session s, asked for after the chat
\* requests r1 and then r2 on s were answered, with no DELETE of s since r1 arrived.
TwoPostsThenHistory(r1, r2, s) ==
    /\ r1 < r2
    /\ req[r1].pc = "done" /\ req[r1].session_id = s
    /\ req[r2].pc = "done" /\ req[r2].session_id = s
    /\ r1 \notin cleared
    /\ response.endpoint = "history"
    /\ response.session_id = s

C4_HistoryAfterDelete ==
    [][\A s \in Sessions :
          (response.endpoint = "clear" /\ response.session_id = s /\ get_history(s))
              => response'.body.messages = <<>>]_vars

\* The history of a session is empty after a successful chat on it was cleared.
C4_Witness ==
    \E s \in Sessions : \E r \in Requests :
        /\ response.endpoint = "history"
        /\ response.session_id = s
        /\ response.body.messages = <<>>
        /\ store[s] # Absent
        /\ Succeeded(r) /\ req[r].session_id = s /\ r \in cleared

\* C5: GET /chat/{session_id}/history for a session id that is not in the store
\* returns the payload "Session not found" with no messages, and leaves the
\* store as it was: the read does not create the session.
C5_UnknownSessionHistory ==
    [][\A s \in Sessions :
          (store[s] = Absent /\ get_history(s)) =>
              /\ response'.status = 200
              /\ response'.body = [message |-> "Session not found", messages |-> <<>>]
              /\ store' = store
              /\ heap' = heap]_vars

\* The history of an unknown session was asked for while another one is known.
C5_Witness ==
    /\ response.endpoint = "history"
    /\ response.body = [message |-> "Session not found", messages |-> <<>>]
    /\ store[response.session_id] = Absent
    /\ \E s \in Sessions : store[s] # Absent

\* C7: every response of POST /chat is a normal ChatResponse: the model's content
\* when the chain returned, "Error: " and the exception's message when it raised.
C7_ChatNeverPropagates ==
    response.endpoint = "chat" =>
        LET r == response.request
        IN  /\ response.status = 200
            /\ req[r].error # "" => response.body = [reply |-> "Error: " \o req[r].error]
            /\ req[r].error = "" => response.body = [reply |-> req[r].content]

\* A chat request whose LLM call raised has been answered.
C7_Witness ==
    /\ response.endpoint = "chat"
    /\ req[response.request].error \in Errors
    /\ req[response.request].pc = "done"

\* The next step of a chat request that has arrived and is not answered yet.
Step(r) ==
    \/ gsh_check(r)
    \/ gsh_create(r)
    \/ gsh_return(r)
    \/ load_history(r)
    \/ \E c \in Contents : llm_ok(r, c)
    \/ \E e \in Errors : llm_raise(r, e)
    \/ save_human(r)
    \/ save_ai(r)
    \/ chat_return(r)
    \/ chat_error(r)

InFlight(r) == req[r].pc \notin {"idle", "done"}

\* C9: nothing orders the chat requests of a session.  While a request of a
\* session is in flight, the next request for the same session is taken, and
\* every request in flight can take its next step whatever the others are doing.
C9_NoOrderingWithinSession ==
    /\ \A r \in Requests : InFlight(r) => ENABLED Step(r)
    /\ \A r \in Requests : \A s \in Sessions : \A m \in Messages :
          (boot = "serving" /\ r = Cardinality(Arrived) + 1) => ENABLED chat(r, s, m)

\* Two requests of one session were in flight at once, neither read the other's
\* messages, and the history holds the later request's message first.
C9_Witness ==
    \E s \in Sessions : \E r1, r2 \in Requests :
        /\ r1 < r2
        /\ req[r1].session_id = s /\ req[r2].session_id = s
        /\ Succeeded(r1) /\ Succeeded(r2)
        /\ req[r1].message # req[r2].message
        /\ req[r1].hist = store[s] /\ req[r2].hist = store[s]
        /\ \A i \in 1..Len(req[r1].loaded) : req[r1].loaded[i].content # req[r2].message
        /\ \A i \in 1..Len(req[r2].loaded) : req[r2].loaded[i].content # req[r1].message
        /\ \E i, j \in 1..Len(heap[store[s]]) :
              /\ i < j
              /\ heap[store[s]][i] = HumanMessage(req[r2].message)
              /\ heap[store[s]][j] = HumanMessage(req[r1].message)

\* C10: in an environment where OPENAI_API_KEY is absent or empty, start-up stops
\* at the check of the key: the LLM, the store, the app and the agent are never
\* created and no endpoint ever serves a request.
C10_StartupFailsFast ==
    env \in {None, ""} =>
        /\ boot \in {"load_env", "check_key", "ValueError"}
        /\ \A c \in DOMAIN created : ~created[c]
        /\ Arrived = {}
        /\ response = NoResponse

\* Start-up has raised ValueError on an empty key.
C10_Witness ==
    /\ env = ""
    /\ boot = "ValueError"

\* The latest response answers the chat request r and no request is in flight.
LastAnswered(r) ==
    /\ Quiet
    /\ response.endpoint = "chat"
    /\ response.request = r

\* The LLM call of the chat request r raised.
Failed(r) == req[r].pc \in {"except", "done"} /\ req[r].error # ""

\* C14: when the LLM call of a POST /chat raises, the log of the session after
\* the request is the log the request found (neither the user's message nor a
\* reply is appended), and a GET history that follows returns exactly that log.
C14_FailedChatLeavesLog ==
    /\ [](\A r \in Requests :
            (Failed(r) /\ LastAnswered(r)) =>
                heap[store[req[r].session_id]] = req[r].loaded)
    /\ [][\A r \in Requests :
            (Failed(r) /\ LastAnswered(r) /\ get_history(req[r].session_id)) =>
                /\ response'.body.messages = Payload(req[r].loaded)
                /\ response'.body.message_count = Len(req[r].loaded)]_vars

\* A chat failed on a session whose log held an earlier exchange, and the
\* history read after it holds that exchange only.
C14_Witness ==
    \E r \in Requests :
        /\ Failed(r)
        /\ req[r].pc = "done"
        /\ response.endpoint = "history"
        /\ response.session_id = req[r].session_id
        /\ response.body.message_count = 2
        /\ Len(req[r].loaded) = 2
        /\ \A q \in Requests : q > r => req[q].pc = "idle"

\* A step of a request on session a: the arrival or a later step of a POST /chat,
\* a DELETE /chat/a, a GET /chat/a/history.
OnSession(a) ==
    \/ \E r \in Requests : \E m \in Messages : chat(r, a, m)
    \/ \E r \in Requests : req[r].session_id = a /\ Step(r)
    \/ clear_history(a)
    \/ get_history(a)

\* C15: for any two distinct session ids a and b, every step of a POST /chat,
\* DELETE or GET history on a leaves b's entry in the store and b's message log
\* as they were.
C15_SessionIsolation ==
    [][\A a, b \in Sessions :
          (a # b /\ OnSession(a)) =>
              /\ store'[b] = store[b]
              /\ store[b] # Absent => heap'[store[b]] = heap[store[b]]]_vars

\* Session a was cleared after a chat on it, while b's log holds an exchange.
C15_Witness ==
    \E a, b \in Sessions : \E r \in Requests :
        /\ a # b
        /\ response.endpoint = "clear"
        /\ response.session_id = a
        /\ Succeeded(r) /\ req[r].session_id = a /\ r \in cleared
        /\ store[a] # Absent /\ heap[store[a]] = <<>>
        /\ store[b] # Absent /\ Len(heap[store[b]]) = 2

\* The chat request r on session s succeeded and no DELETE of s came after it.
Counts(s, r) == req[r].session_id = s /\ Succeeded(r) /\ r \notin cleared

RECURSIVE ExchangesFrom(_, _)
\* One human message and one AI message for each request from r on that
\* counts for session s, in request order.
ExchangesFrom(s, r) ==
    IF r > MaxRequests THEN <<>>
    ELSE (IF Counts(s, r)
          THEN <<HumanMessage(req[r].message), AIMessage(req[r].content)>>
          ELSE <<>>) \o ExchangesFrom(s, r + 1)

\* C16: under sequential use, whenever no request is in flight the log of a
\* known session is one human message followed by one AI message for each
\* successful chat since the last DELETE, in request order; a history response
\* lists exactly these, and its message_count is the length of its messages
\* list and twice the number of those chats.
C16_LogStructure ==
    Quiet =>
        \A s \in Sessions : store[s] # Absent =>
            /\ heap[store[s]] = ExchangesFrom(s, 1)
            /\ (response.endpoint = "history" /\ response.session_id = s) =>
                  /\ response.body.messages = Payload(ExchangesFrom(s, 1))
                  /\ response.body.message_count = Len(response.body.messages)
                  /\ response.body.message_count =
                         2 * Cardinality({r \in Requests : Counts(s, r)})

\* The history of a session after a successful chat, a DELETE and a second
\* successful chat: the second exchange only.
C16_Witness ==
    \E s \in Sessions : \E r1, r2 \in Requests :
        /\ Quiet
        /\ r1 < r2
        /\ req[r1].session_id = s /\ Succeeded(r1) /\ r1 \in cleared
        /\ Counts(s, r2)
        /\ req[r1].message # req[r2].message
        /\ response.endpoint = "history" /\ response.session_id = s
        /\ response.body.message_count = 2
        /\ response.body.messages[1] = [type |-> "HumanMessage", content |-> req[r2].message]

\* A POST /chat for session s has been answered.
Posted(s) == \E r \in Requests : req[r].pc = "done" /\ req[r].session_id = s

\* C17: a session id in the store stays in the store; a session id for which a
\* POST /chat was answered, with the model's content or with an error, is in the
\* store; and every GET history for it from then on returns the session record,
\* never "Session not found".
C17_SessionsNeverRemoved ==
    /\ [][\A s \in Sessions : store[s] # Absent => store'[s] # Absent]_vars
    /\ [](\A s \in Sessions : Posted(s) => store[s] # Absent)
    /\ [][\A s \in Sessions :
            (Posted(s) /\ get_history(s)) =>
                /\ DOMAIN response'.body = {"session_id", "message_count", "messages"}
                /\ response'.body.session_id = s]_vars

\* The history of a session whose only chat failed and which was then cleared:
\* the session record, with no messages.
C17_Witness ==
    \E s \in Sessions : \E r \in Requests :
        /\ req[r].session_id = s /\ Failed(r) /\ req[r].pc = "done" /\ r \in cleared
        /\ \A q \in Requests : q # r => req[q].session_id # s
        /\ response.endpoint = "history" /\ response.session_id = s
        /\ response.body = [session_id |-> s, message_count |-> 0, messages |-> <<>>]

\* The messages of the log are among them.
Holds(log, message) == \E i \in 1..Len(log) : log[i] = message

\* C18: under concurrent POST /chat, every request of a session works on the
\* history object the store holds for the session (the object is never
\* replaced), and the messages of every chat that succeeded are in that log.
C18_OneLogPerSession ==
    \A r \in Requests :
        LET s == req[r].session_id
        IN  /\ req[r].hist # Absent => req[r].hist = store[s]
            /\ Succeeded(r) =>
                  /\ Holds(heap[store[s]], HumanMessage(req[r].message))
                  /\ Holds(heap[store[s]], AIMessage(req[r].content))

\* ------------------------------------------------------- SQL agent: claims
\* C11: for every question, every statement the agent sends through the query
\* tool is read-only: it never executes INSERT, UPDATE, DELETE, DROP, ...
C11_OnlyReadOnlyStatements ==
    \A i \in 1..Len(agent.sent) : agent.sent[i].kind = "SELECT"

====
